---- MODULE Spec2Model ----
(***************************************************************************)
(* Model of the payment gateway's transaction store, the initiate route,   *)
(* the provider-callback ingress (M-Pesa, Equity), the store's completion  *)
(* timer and the webhook dispatcher with its retry timers.                 *)
(*                                                                         *)
(* Handlers are async functions written against the Promise-returning      *)
(* IStorage interface.  Code between two awaits runs without interruption; *)
(* every await is a suspension point, so each handler is a small process   *)
(* with a position (pc).  A MemStorage method reads or writes its map at   *)
(* the moment it is called, before the await that follows it suspends.     *)
(* Time is in milliseconds.                                                *)
(***************************************************************************)
EXTENDS Integers, Sequences, FiniteSets, TLC

\* ---------------------------------------------------------------- bounds
MaxTxns == 1
MaxInitiates == 2
MaxCallbacks == 2
MaxWebhooks == 1
MaxTicks == 1
MaxRetryTicks == 2
MaxListTxns == 3
MaxPage == 2
MaxLimit == 2

\* ------------------------------------------------------ program constants
ExpiryWindow == 1800000
CompletionDelay == 5000
RetryBase == 1000
RetryCap == 30000
DefaultRetryCount == 3
DefaultLimit == 20

PENDING == "pending"
PROCESSING == "processing"
COMPLETED == "completed"
FAILED == "failed"
CANCELLED == "cancelled"
REFUNDED == "refunded"

PAYMENT_STATUS == {PENDING, PROCESSING, COMPLETED, FAILED, CANCELLED, REFUNDED}
TerminalStatus == {COMPLETED, FAILED, CANCELLED, REFUNDED}

\* providers accepted by insertTransactionSchema that the model draws from:
\* mpesa and equity have an HTTP adapter, paybill has a local one, card has none
Providers == {"mpesa", "equity", "paybill", "card"}

\* the two users created by MemStorage.initializeDefaultData (admin, merchant)
Users == {1, 2}

\* amounts in hundredths of a currency unit
Amounts == {50000}

\* steps by which the clock advances
TickSteps == {CompletionDelay, ExpiryWindow}

\* ------------------------------------------------------------ optionals
None == <<>>
Some(v) == <<v>>
IsSome(o) == o # None

\* ------------------------------------------------------------ identifiers
\* `txn_${nanoid(12)}`: a fresh key per transaction
TxnId(n) == [kind |-> "txn", n |-> n]
\* `ws_CO_${Date.now()}`: the id createTransaction stores on an mpesa transaction
WsCoId(t) == [kind |-> "ws_CO", n |-> t]
\* CheckoutRequestID / transactionId assigned by the provider's initiate response
ProviderId(n) == [kind |-> "prov", n |-> n]
\* `PB_${transaction.transactionId}` returned by initiatePaybillPayment
PaybillId(n) == [kind |-> "PB", n |-> n]

VARIABLES
    now,            \* Date.now()
    transactions,   \* MemStorage.transactions: Map<transactionId, Transaction>
    txnTimers,      \* pending setTimeout callbacks of createTransaction
    initiates,      \* running initiate handlers: position and locals of each
    nInitiates,     \* number of initiate requests received so far
    providerCalls,  \* per transaction id, number of provider-adapter initiate calls
    issued,         \* per transaction id, the correlation id its last 200 response carried
    callbacks,      \* running provider-callback handlers: position and locals of each
    nCallbacks,     \* number of provider-callback requests received so far
    webhooks,       \* MemStorage.webhooks, in id order
    inflight,       \* first delivery attempts whose HTTP POST is outstanding
    retryTimers,    \* pending setTimeout callbacks of scheduleRetry
    scheduled,      \* the setTimeout calls scheduleRetry has made
    webhookDeliveries, \* MemStorage.webhookDeliveries, in id order
    users,          \* MemStorage.users, in id order
    registers,      \* running register handlers: position and locals of each
    nRegisters,     \* number of register requests received so far
    logins,         \* running login handlers: position and locals of each
    nLogins,        \* number of login requests received so far
    accessToken,    \* MpesaService.accessToken
    tokenExpiry,    \* MpesaService.tokenExpiry
    tokenFetches,   \* getAccessToken calls suspended at their OAuth request
    nTokenCalls,    \* number of getAccessToken calls made so far
    runtime,        \* what the global name crypto is bound to in the running build
    signatureChecks \* the verifyWebhookSignature calls made and their outcomes

vars == <<now, transactions, txnTimers, initiates, nInitiates, providerCalls, issued,
          callbacks, nCallbacks,
          webhooks, inflight, retryTimers, scheduled, webhookDeliveries,
          users, registers, nRegisters, logins, nLogins,
          accessToken, tokenExpiry, tokenFetches, nTokenCalls,
          runtime, signatureChecks>>

authVars == <<users, registers, nRegisters, logins, nLogins>>
tokenVars == <<accessToken, tokenExpiry, tokenFetches, nTokenCalls>>
signatureVars == <<runtime, signatureChecks>>
serviceVars == <<authVars, tokenVars, signatureVars>>

initiateVars == <<initiates, nInitiates, providerCalls, issued>>
callbackVars == <<callbacks, nCallbacks>>
dispatchVars == <<inflight, retryTimers, scheduled, webhookDeliveries>>
paymentVars == <<transactions, txnTimers, initiateVars, callbackVars, webhooks, dispatchVars>>

\* ------------------------------------------------------------ MemStorage
\* Map.get: the stored record, or undefined
getTransaction(id) ==
    IF id \in DOMAIN transactions THEN Some(transactions[id]) ELSE None

\* { ...transaction, ...updates, updatedAt: new Date() }
Merge(t, updates) ==
    [f \in DOMAIN t |->
        IF f = "updatedAt" THEN now
        ELSE IF f \in DOMAIN updates THEN updates[f] ELSE t[f]]

\* the map after updateTransaction(id, updates); unchanged for an unknown id
updateTransaction(id, updates) ==
    IF id \in DOMAIN transactions
    THEN [transactions EXCEPT ![id] = Merge(transactions[id], updates)]
    ELSE transactions

\* the record createTransaction builds.  expiresAt is computed into a local
\* constant that is never copied into the record, and the validated input
\* (insertTransactionSchema) has no expiresAt, so the field stays undefined.
NewTransaction(n, userId, provider, amount) ==
    [ transactionId      |-> TxnId(n),
      userId             |-> userId,
      provider           |-> provider,
      amount             |-> amount,
      checkoutRequestId  |-> IF provider = "mpesa" THEN Some(WsCoId(now)) ELSE None,
      status             |-> PENDING,
      createdAt          |-> now,
      updatedAt          |-> now,
      completedAt        |-> None,
      expiresAt          |-> None,
      mpesaReceiptNumber |-> None ]

\* what the initiate handler keeps of the record getTransaction returned: the
\* fields it reads afterwards
Read(id) ==
    IF id \in DOMAIN transactions
    THEN Some([ userId |-> transactions[id].userId,
                status |-> transactions[id].status,
                provider |-> transactions[id].provider ])
    ELSE None

\* what processWebhook keeps of the record getTransaction returned: its userId
ReadOwner(id) ==
    IF id \in DOMAIN transactions
    THEN Some([userId |-> transactions[id].userId])
    ELSE None

\* getWebhooksByUser: the user's subscriptions, in id order
getWebhooksByUser(userId) ==
    SelectSeq(webhooks, LAMBDA w : w.userId = userId)

\* the record createWebhookDelivery appends.  dispatch is no stored column: it
\* names the deliverWebhook call (the processWebhook run and the subscription)
\* that made the record itself or through its chain of scheduleRetry closures.
NewDelivery(dispatch, webhook, payload, attempt, success) ==
    [ id            |-> Len(webhookDeliveries) + 1,
      dispatch      |-> dispatch,
      webhookId     |-> webhook.id,
      transactionId |-> payload.transactionId,
      event         |-> payload.event,
      attempt       |-> attempt,
      success       |-> success,
      createdAt     |-> now ]

\* ------------------------------------------------------------------ Init
\* MemStorage.createUser: the record stored under the next id; the password is
\* stored as given (the register route passes a bcrypt hash, the constructor's
\* default users are stored with their plain password)
NewUser(id, username, email, password, hashed, at) ==
    [ id |-> id, username |-> username, email |-> email,
      password |-> password, hashed |-> hashed, isActive |-> TRUE,
      failedLoginAttempts |-> 0, lockedUntil |-> None, lastLoginAt |-> None,
      createdAt |-> at ]

\* the state after construction: empty maps, and the two default users of
\* initializeDefaultData
Init ==
    /\ now = 0
    /\ transactions = [k \in {} |-> 0]
    /\ txnTimers = {}
    /\ initiates = {}
    /\ nInitiates = 0
    /\ providerCalls = [k \in {} |-> 0]
    /\ issued = [k \in {} |-> None]
    /\ callbacks = {}
    /\ nCallbacks = 0
    /\ webhooks = <<>>
    /\ inflight = {}
    /\ retryTimers = {}
    /\ scheduled = {}
    /\ webhookDeliveries = <<>>
    /\ users = <<NewUser(1, "admin", "admin@kenyanpay.com", "admin123", FALSE, 0),
                 NewUser(2, "merchant", "merchant@kenyanpay.com", "merchant123", FALSE, 0)>>
    /\ registers = {}
    /\ nRegisters = 0
    /\ logins = {}
    /\ nLogins = 0
    /\ accessToken = None
    /\ tokenExpiry = None
    /\ tokenFetches = {}
    /\ nTokenCalls = 0
    /\ runtime = None
    /\ signatureChecks = {}

\* ------------------------------------------------------------- the clock
\* number of clock steps taken so far, recovered from the clock value
TicksTaken == (now \div ExpiryWindow) + ((now % ExpiryWindow) \div CompletionDelay)

\* time passes; a timer fires no earlier than its due time, and the event loop
\* runs the callbacks that are due before the clock moves on
Tick(d, max) ==
    /\ TicksTaken < max
    /\ \A tm \in txnTimers : tm.fireAt > now
    /\ \A t \in retryTimers : t.fireAt > now
    /\ now' = now + d
    /\ UNCHANGED <<serviceVars, transactions, txnTimers, initiateVars, callbackVars,
                   webhooks, dispatchVars>>

\* --------------------------------------------- POST /payments/create-intent
\* validateRequest admits amount > 0 only; the handler calls createTransaction,
\* which stores the record and, for mpesa, arms the 5 s completion timer.
CreateIntentUpTo(max, userId, provider, amount) ==
    /\ Cardinality(DOMAIN transactions) < max
    /\ amount > 0
    /\ LET n == Cardinality(DOMAIN transactions) + 1
           t == NewTransaction(n, userId, provider, amount)
       IN /\ transactions' = (TxnId(n) :> t) @@ transactions
          /\ providerCalls' = (TxnId(n) :> 0) @@ providerCalls
          /\ issued' = (TxnId(n) :> None) @@ issued
          /\ txnTimers' = IF provider = "mpesa"
                          THEN txnTimers \cup {[id |-> TxnId(n), fireAt |-> now + CompletionDelay]}
                          ELSE txnTimers
    /\ UNCHANGED <<serviceVars, now, initiates, nInitiates, callbackVars, webhooks, dispatchVars>>

CreateIntent(userId, provider, amount) == CreateIntentUpTo(MaxTxns, userId, provider, amount)

\* the setTimeout callback of createTransaction: Math.random() > 0.1 picks the
\* outcome; the write does not look at the current status
CompletionTimer(tm, success) ==
    /\ tm \in txnTimers
    /\ now >= tm.fireAt
    /\ txnTimers' = txnTimers \ {tm}
    /\ transactions' = updateTransaction(tm.id,
           [ status |-> IF success THEN COMPLETED ELSE FAILED,
             completedAt |-> Some(now),
             mpesaReceiptNumber |-> IF success THEN Some("NLJ") ELSE None ])
    /\ UNCHANGED <<serviceVars, now, initiateVars, callbackVars, webhooks, dispatchVars>>

\* ------------------------------------------- GET /transactions, /transactions/:id
\* the role of a user: initializeDefaultData creates user 1 as admin and user 2
\* as merchant
Role(userId) == IF userId = 1 THEN "admin" ELSE "merchant"

\* Array.from(this.transactions.values()): the records in insertion order
TransactionValues ==
    [n \in 1..Cardinality(DOMAIN transactions) |-> transactions[TxnId(n)]]

\* Array.prototype.slice(start, end) for 0 <= start <= end
Slice(s, start, end) == SubSeq(s, start + 1, IF end <= Len(s) THEN end ELSE Len(s))

\* page, limit, status and provider values a list request carries; 0 and None
\* stand for a parameter that is falsy or absent
Pages == 0..MaxPage
Limits == 0..MaxLimit
StatusFilters == {None, Some(PENDING), Some(COMPLETED)}
ProviderFilters == {None, Some("mpesa")}

\* MemStorage.getTransactionsByUser: the owner's records, filtered by status
\* and provider when given, then the slice of the requested page
Matching(userId, status, provider) ==
    SelectSeq(TransactionValues,
              LAMBDA t : /\ t.userId = userId
                         /\ IsSome(status) => t.status = status[1]
                         /\ IsSome(provider) => t.provider = provider[1])

getTransactionsByUser(userId, page, limit, status, provider) ==
    LET p == IF page = 0 THEN 1 ELSE page
        l == IF limit = 0 THEN DefaultLimit ELSE limit
        start == (p - 1) * l
    IN Slice(Matching(userId, status, provider), start, start + l)

\* GET /transactions: the page of records and pagination.total, which the
\* route takes from the length of what getTransactionsByUser returned
ListTransactions(userId, page, limit, status, provider) ==
    LET found == getTransactionsByUser(userId, page, limit, status, provider)
    IN [ transactions |-> found, total |-> Len(found) ]

\* a view that answers every caller who names a stored transaction
GetTransactionStatusAnyCaller(userId, id) ==
    IF getTransaction(id) = None THEN 404 ELSE 200

\* GET /transactions/:transactionId: 404 for an unknown id, 403 for a caller
\* who is neither the owner nor an admin, otherwise 200 with the record
GetTransactionStatus(userId, id) ==
    IF getTransaction(id) = None THEN 404
    ELSE IF getTransaction(id)[1].userId # userId /\ Role(userId) # "admin" THEN 403
    ELSE 200

\* ------------------------------------ POST /payments/initiate/:transactionId
\* the provider adapter the route's switch selects for a provider
AdapterOf(provider) ==
    CASE provider = "mpesa" -> "initiateSTKPush"
      [] provider = "equity" -> "initiatePayment"
      [] provider \in {"paybill", "till"} -> "initiatePaybillPayment"
      [] OTHER -> "none"

\* transaction ids a request may name: every stored one and, by kind, one
\* that names nothing
RequestIds(kinds) ==
    DOMAIN transactions \cup (IF "unknown" \in kinds THEN {TxnId(0)} ELSE {})

\* the handler starts: storage.getTransaction(transactionId) reads the map,
\* then the await suspends the handler holding what was read
InitiateGet(userId, id) ==
    /\ nInitiates < MaxInitiates
    /\ nInitiates' = nInitiates + 1
    /\ initiates' = initiates \cup
           {[ n |-> nInitiates + 1, pc |-> "got", userId |-> userId, id |-> id,
              transaction |-> Read(id) ]}
    /\ UNCHANGED <<serviceVars, now, transactions, txnTimers, providerCalls, issued, callbackVars,
                   webhooks, dispatchVars>>

\* checks that let any user initiate any stored transaction
InitiateCheckStatusAnyOwner(q) ==
    IF q.transaction = None THEN 404
    ELSE IF q.transaction[1].status # PENDING THEN 400
    ELSE 0

\* the three checks of the handler on the record it read: the status code of
\* the error it throws, or 0 when the request passes them
InitiateCheckStatus(q) ==
    IF q.transaction = None THEN 404
    ELSE IF q.transaction[1].userId # q.userId THEN 403
    ELSE IF q.transaction[1].status # PENDING THEN 400
    ELSE 0

\* the handler resumes: the three checks on the record it read, then
\* storage.updateTransaction(transactionId, {status: PROCESSING}) writes the map
InitiateCheck(q) ==
    /\ q \in initiates
    /\ q.pc = "got"
    /\ IF InitiateCheckStatus(q) # 0
       THEN /\ initiates' = initiates \ {q}
            /\ UNCHANGED transactions
       ELSE /\ initiates' = (initiates \ {q}) \cup {[q EXCEPT !.pc = "updated"]}
            /\ transactions' = updateTransaction(q.id, [status |-> PROCESSING])
    /\ UNCHANGED <<serviceVars, now, txnTimers, nInitiates, providerCalls, issued, callbackVars,
                   webhooks, dispatchVars>>

\* the status code the route answers after the switch on the provider: a
\* provider without adapter throws BadRequest (400), an adapter that throws is
\* answered 500 by the error handler, an adapter that returns gives 200
InitiateProviderStatus(adapter, ok) ==
    IF adapter = "none" THEN 400 ELSE IF ok THEN 200 ELSE 500

\* a handler that puts the transaction back to PENDING when the adapter throws
InitiateProviderReverting(q, ok) ==
    /\ q \in initiates
    /\ q.pc = "updated"
    /\ initiates' = initiates \ {q}
    /\ LET adapter == AdapterOf(q.transaction[1].provider)
           corr == IF adapter = "initiatePaybillPayment"
                   THEN PaybillId(q.id.n)
                   ELSE ProviderId(10 * q.id.n + providerCalls[q.id] + 1)
       IN IF adapter = "none"
          THEN /\ ok = FALSE
               /\ UNCHANGED <<providerCalls, issued, transactions>>
          ELSE /\ adapter = "initiatePaybillPayment" => ok
               /\ providerCalls' = [providerCalls EXCEPT ![q.id] = @ + 1]
               /\ issued' = IF InitiateProviderStatus(adapter, ok) = 200
                            THEN [issued EXCEPT ![q.id] = Some(corr)]
                            ELSE issued
               /\ transactions' = IF ok THEN transactions
                                  ELSE updateTransaction(q.id, [status |-> PENDING])
    /\ UNCHANGED <<serviceVars, now, txnTimers, nInitiates, callbackVars, webhooks, dispatchVars>>

\* the handler resumes after the write: the switch on the provider of the
\* record it read.  An adapter call either returns the provider's correlation
\* id or throws; initiatePaybillPayment makes no HTTP call and always returns
\* `PB_${transactionId}`.
InitiateProvider(q, ok) ==
    /\ q \in initiates
    /\ q.pc = "updated"
    /\ initiates' = initiates \ {q}
    /\ LET adapter == AdapterOf(q.transaction[1].provider)
           corr == IF adapter = "initiatePaybillPayment"
                   THEN PaybillId(q.id.n)
                   ELSE ProviderId(10 * q.id.n + providerCalls[q.id] + 1)
       IN IF adapter = "none"
          THEN /\ ok = FALSE
               /\ UNCHANGED <<providerCalls, issued>>
          ELSE /\ adapter = "initiatePaybillPayment" => ok
               /\ providerCalls' = [providerCalls EXCEPT ![q.id] = @ + 1]
               /\ issued' = IF InitiateProviderStatus(adapter, ok) = 200
                            THEN [issued EXCEPT ![q.id] = Some(corr)]
                            ELSE issued
    /\ UNCHANGED <<serviceVars, now, transactions, txnTimers, nInitiates, callbackVars, webhooks,
                   dispatchVars>>

\* ------------------------------------------------- provider callback ingress
\* ResultCode as JSON carries it: the number 0, the string "0", or a failure code
Num(v) == [type |-> "number", v |-> v]
Str(v) == [type |-> "string", v |-> v]
ResultCodes == {Num(0), Str(0), Num(1032)}

\* correlation ids a callback may carry, by kind: a stored transaction's key,
\* the checkoutRequestId stored on a transaction, an id an initiate response
\* returned, or an id that names nothing
CorrelationIds(kinds) ==
    (IF "key" \in kinds THEN DOMAIN transactions ELSE {})
    \cup (IF "stored" \in kinds
          THEN {transactions[k].checkoutRequestId[1] :
                  k \in {j \in DOMAIN transactions : IsSome(transactions[j].checkoutRequestId)}}
          ELSE {})
    \cup (IF "issued" \in kinds
          THEN {issued[k][1] : k \in {j \in DOMAIN issued : IsSome(issued[j])}}
          ELSE {})
    \cup (IF "unknown" \in kinds THEN {TxnId(0)} ELSE {})

\* a well-formed M-Pesa body: a success body carries CallbackMetadata with a
\* receipt and an Amount in its Item array
MpesaBody(c, rc) ==
    [ CheckoutRequestID |-> Some(c), ResultCode |-> rc, Item |-> "array",
      receipt |-> IF rc.v = 0 THEN Some("QK") ELSE None,
      Amount |-> IF rc.v = 0 THEN Some(500) ELSE None ]

\* an M-Pesa body without CheckoutRequestID
MalformedMpesaBody ==
    [ CheckoutRequestID |-> None, ResultCode |-> Num(0), Item |-> "array",
      receipt |-> None, Amount |-> None ]

\* an M-Pesa success body whose CallbackMetadata.Item is an object, not an array
BrokenItemMpesaBody(c) ==
    [ CheckoutRequestID |-> Some(c), ResultCode |-> Str(0), Item |-> "object",
      receipt |-> None, Amount |-> None ]

\* an M-Pesa success body whose Amount item carries the given value
MpesaAmountBody(c, amount) ==
    [ CheckoutRequestID |-> Some(c), ResultCode |-> Str(0), Item |-> "array",
      receipt |-> Some("QK"), Amount |-> Some(amount) ]

\* Amount values a callback may carry: nothing checks their sign
CallbackAmounts == {-500, 0, 500}

MpesaBodies(kinds) ==
    {MalformedMpesaBody}
    \cup {MpesaBody(c, rc) : c \in CorrelationIds(kinds), rc \in ResultCodes}
    \cup {BrokenItemMpesaBody(c) : c \in CorrelationIds(kinds)}

\* Equity bodies: no structural validation on the route
EquityBody(c, st) ==
    [ transactionId |-> Some(c), status |-> st,
      receiptNumber |-> IF st = "SUCCESS" THEN Some("EQ") ELSE None,
      amount |-> IF st = "SUCCESS" THEN Some(500) ELSE None ]

EquityBodies(kinds) ==
    {EquityBody(c, st) : c \in CorrelationIds(kinds), st \in {"SUCCESS", "FAILED"}}

\* MpesaService.handleWebhook: success only when ResultCode === "0" (a string);
\* amount is the Amount item divided by 100, here kept in hundredths
MpesaHandleWebhook(body) ==
    IF body.ResultCode = Str(0)
    THEN [ transactionId |-> body.CheckoutRequestID, status |-> "completed",
           receiptNumber |-> body.receipt,
           amount |-> IF IsSome(body.Amount) THEN Some((body.Amount[1] * 100) \div 100) ELSE None ]
    ELSE [ transactionId |-> body.CheckoutRequestID, status |-> "failed",
           receiptNumber |-> None, amount |-> None ]

\* EquityService.handleWebhook: success when status === "SUCCESS"
EquityHandleWebhook(body) ==
    IF body.status = "SUCCESS"
    THEN [ transactionId |-> body.transactionId, status |-> "completed",
           receiptNumber |-> body.receiptNumber,
           amount |-> IF IsSome(body.amount) THEN Some(body.amount[1] * 100) ELSE None ]
    ELSE [ transactionId |-> body.transactionId, status |-> "failed",
           receiptNumber |-> None, amount |-> None ]

\* the updateData object processWebhook builds from a webhookResult
UpdateData(result) ==
    LET base == [ status |-> IF result.status = "completed" THEN COMPLETED ELSE FAILED,
                  completedAt |-> Some(now) ]
        withReceipt == IF IsSome(result.receiptNumber)
                       THEN [mpesaReceiptNumber |-> result.receiptNumber] @@ base
                       ELSE base
    IN IF IsSome(result.amount) /\ result.amount[1] # 0
       THEN [amount |-> result.amount[1]] @@ withReceipt
       ELSE withReceipt

\* the structural check of POST /webhooks/mpesa: Body, Body.stkCallback and
\* Body.stkCallback.CheckoutRequestID must be present, otherwise 400
MpesaMalformed(body) == body.CheckoutRequestID = None

\* MpesaService.handleWebhook throws when, for ResultCode "0", item?.find is
\* called on an Item that has no find method; its catch rethrows
MpesaHandleThrows(body) == body.ResultCode = Str(0) /\ body.Item # "array"

\* the status POST /webhooks/mpesa answers with: 400 from the structural
\* check, 500 from the catch block for an error whose message is not
\* "Transaction not found" (no callee throws that message), otherwise 200
MpesaWebhookStatus(body) ==
    IF MpesaMalformed(body) THEN 400
    ELSE IF MpesaHandleThrows(body) THEN 500
    ELSE 200

\* the status POST /webhooks/equity answers with: handleWebhook and
\* processWebhook throw for no JSON object body, so the catch block's 400 is
\* not reached
EquityWebhookStatus(body) == 200

\* processWebhook up to its second await: storage.updateTransaction(
\* transactionId, updateData), keyed by the callback's correlation id, then
\* storage.getTransaction(transactionId).  Of the record read the handler uses
\* its presence and its userId; no operation removes a transaction or changes
\* its userId, so the read gives after the first await what it gives at the
\* write, and the two are one step here.
ProcessWebhookUpdate(result) ==
    /\ transactions' = updateTransaction(result.transactionId[1], UpdateData(result))
    /\ callbacks' = callbacks \cup
           {[ n |-> nCallbacks + 1, pc |-> "got",
              transactionId |-> result.transactionId[1], status |-> result.status,
              receiptNumber |-> result.receiptNumber,
              transaction |-> ReadOwner(result.transactionId[1]), hooks |-> <<>> ]}

\* POST /webhooks/mpesa: 400 for a body without CheckoutRequestID, 500 when
\* handleWebhook throws, otherwise handleWebhook and processWebhook
MpesaWebhook(body) ==
    /\ nCallbacks < MaxCallbacks
    /\ nCallbacks' = nCallbacks + 1
    /\ IF MpesaMalformed(body) \/ MpesaHandleThrows(body)
       THEN UNCHANGED <<transactions, callbacks>>
       ELSE ProcessWebhookUpdate(MpesaHandleWebhook(body))
    /\ UNCHANGED <<serviceVars, now, txnTimers, initiateVars, webhooks, dispatchVars>>

\* POST /webhooks/equity: handleWebhook and processWebhook
EquityWebhook(body) ==
    /\ nCallbacks < MaxCallbacks
    /\ nCallbacks' = nCallbacks + 1
    /\ ProcessWebhookUpdate(EquityHandleWebhook(body))
    /\ UNCHANGED <<serviceVars, now, txnTimers, initiateVars, webhooks, dispatchVars>>

\* processWebhook resumes: an unknown transaction is logged and the function
\* returns (the route answers 200); otherwise getWebhooksByUser reads the
\* owner's subscriptions
ProcessWebhookHooks(c) ==
    /\ c \in callbacks
    /\ c.pc = "got"
    /\ callbacks' = IF c.transaction = None
                    THEN callbacks \ {c}
                    ELSE (callbacks \ {c}) \cup
                         {[c EXCEPT !.pc = "hooks",
                                    !.hooks = getWebhooksByUser(c.transaction[1].userId)]}
    /\ UNCHANGED <<serviceVars, now, transactions, txnTimers, initiateVars, nCallbacks,
                   webhooks, dispatchVars>>

\* the payload processWebhook builds
Payload(c) ==
    [ event |-> IF c.status = "completed" THEN "payment.completed" ELSE "payment.failed",
      transactionId |-> c.transactionId ]

\* processWebhook resumes: deliverWebhook is called for every subscription
\* read as active, each call issuing its HTTP POST
ProcessWebhookDeliver(c) ==
    /\ c \in callbacks
    /\ c.pc = "hooks"
    /\ callbacks' = (callbacks \ {c}) \cup {[c EXCEPT !.pc = "delivering"]}
    /\ inflight' = inflight \cup
           {[ cb |-> c.n, dispatch |-> <<c.n, c.hooks[i].id>>,
              webhook |-> c.hooks[i], payload |-> Payload(c) ] :
               i \in {j \in 1..Len(c.hooks) : c.hooks[j].isActive}}
    /\ UNCHANGED <<serviceVars, now, transactions, txnTimers, initiateVars, nCallbacks,
                   webhooks, retryTimers, scheduled, webhookDeliveries>>

\* Promise.allSettled resolves once every deliverWebhook call has returned;
\* the route answers 200
ProcessWebhookDone(c) ==
    /\ c \in callbacks
    /\ c.pc = "delivering"
    /\ \A d \in inflight : d.cb # c.n
    /\ callbacks' = callbacks \ {c}
    /\ UNCHANGED <<serviceVars, now, transactions, txnTimers, initiateVars, nCallbacks,
                   webhooks, dispatchVars>>

\* ------------------------------------------------------ webhook dispatcher
\* event sets and attempt limits a subscription is created with
EventSets == {{"payment.completed", "payment.failed"}}
RetryCounts == {DefaultRetryCount}

\* POST /webhooks: insertWebhookSchema admits retryCount 0..10 (default 3);
\* createWebhook stores the subscription as active
CreateWebhook(userId, events, retryCount) ==
    /\ Len(webhooks) < MaxWebhooks
    /\ retryCount \in 0..10
    /\ webhooks' = Append(webhooks,
           [ id |-> Len(webhooks) + 1, userId |-> userId, events |-> events,
             retryCount |-> retryCount, isActive |-> TRUE, createdAt |-> now ])
    /\ UNCHANGED <<serviceVars, now, transactions, txnTimers, initiateVars, callbackVars, dispatchVars>>

\* subscriptions the subscription-lifecycle runs create: one subscribed to
\* payment.completed only and one subscribed to both outcomes, with small
\* attempt limits
SubscriptionEventSets == {{"payment.completed"}, {"payment.completed", "payment.failed"}}
SubscriptionRetryCounts == {1, 2}

\* MemStorage.updateWebhook(id, {isActive}): merges the update into the stored
\* subscription; an unknown id changes nothing
UpdateWebhook(id, isActive) ==
    /\ id \in 1..Len(webhooks)
    /\ webhooks[id].isActive # isActive
    /\ webhooks' = [webhooks EXCEPT ![id].isActive = isActive]
    /\ UNCHANGED <<serviceVars, now, transactions, txnTimers, initiateVars, callbackVars, dispatchVars>>

Pow2(n) == IF n <= 0 THEN 1 ELSE 2 ^ n
Min(a, b) == IF a <= b THEN a ELSE b

\* a delay that does not grow with the attempt
RetryDelayFlat(attempt) == Min(RetryBase, RetryCap)

\* a delay that doubles without a cap
RetryDelayUncapped(attempt) == RetryBase * Pow2(attempt - 1)

\* scheduleRetry's delay: Math.min(1000 * Math.pow(2, attempt - 1), 30000)
RetryDelay(attempt) == Min(RetryBase * Pow2(attempt - 1), RetryCap)

\* the timer scheduleRetry(webhook, payload, attempt) arms
RetryTimer(dispatch, webhook, payload, attempt) ==
    [ dispatch |-> dispatch, webhook |-> webhook, payload |-> payload,
      attempt |-> attempt, fireAt |-> now + RetryDelay(attempt) ]

\* the setTimeout call scheduleRetry(webhook, payload, attempt) makes
RetryCall(dispatch, attempt) ==
    [ dispatch |-> dispatch, attempt |-> attempt, delay |-> RetryDelay(attempt) ]

\* a first attempt whose failure schedules a retry whatever the attempt limit
DeliverWebhookAlwaysRetries(d, ok) ==
    /\ d \in inflight
    /\ inflight' = inflight \ {d}
    /\ webhookDeliveries' = Append(webhookDeliveries,
           NewDelivery(d.dispatch, d.webhook, d.payload, 1, ok))
    /\ IF ~ok
       THEN /\ retryTimers' = retryTimers \cup {RetryTimer(d.dispatch, d.webhook, d.payload, 1)}
            /\ scheduled' = scheduled \cup {RetryCall(d.dispatch, 1)}
       ELSE UNCHANGED <<retryTimers, scheduled>>
    /\ UNCHANGED <<serviceVars, now, transactions, txnTimers, initiateVars, callbackVars, webhooks>>

\* deliverWebhook after its HTTP POST: a 2xx answer is recorded as attempt 1
\* success; any other outcome is recorded as attempt 1 failure and, when
\* retryCount > 0, scheduleRetry(webhook, payload, 1) is called
DeliverWebhook(d, ok) ==
    /\ d \in inflight
    /\ inflight' = inflight \ {d}
    /\ webhookDeliveries' = Append(webhookDeliveries,
           NewDelivery(d.dispatch, d.webhook, d.payload, 1, ok))
    /\ IF ~ok /\ d.webhook.retryCount > 0
       THEN /\ retryTimers' = retryTimers \cup {RetryTimer(d.dispatch, d.webhook, d.payload, 1)}
            /\ scheduled' = scheduled \cup {RetryCall(d.dispatch, 1)}
       ELSE UNCHANGED <<retryTimers, scheduled>>
    /\ UNCHANGED <<serviceVars, now, transactions, txnTimers, initiateVars, callbackVars, webhooks>>

\* a retry callback that schedules the next retry after a success too
ScheduleRetryAfterSuccess(t, ok) ==
    /\ t \in retryTimers
    /\ now >= t.fireAt
    /\ webhookDeliveries' = Append(webhookDeliveries,
           NewDelivery(t.dispatch, t.webhook, t.payload, t.attempt + 1, ok))
    /\ IF t.attempt < t.webhook.retryCount
       THEN /\ retryTimers' = (retryTimers \ {t}) \cup
                   {RetryTimer(t.dispatch, t.webhook, t.payload, t.attempt + 1)}
            /\ scheduled' = scheduled \cup {RetryCall(t.dispatch, t.attempt + 1)}
       ELSE /\ retryTimers' = retryTimers \ {t}
            /\ UNCHANGED scheduled
    /\ UNCHANGED <<serviceVars, now, transactions, txnTimers, initiateVars, callbackVars, webhooks,
                   inflight>>

\* the setTimeout callback of scheduleRetry(webhook, payload, attempt): the
\* POST is sent again and recorded as attempt + 1; after a failure another
\* retry is scheduled while attempt < retryCount
ScheduleRetry(t, ok) ==
    /\ t \in retryTimers
    /\ now >= t.fireAt
    /\ webhookDeliveries' = Append(webhookDeliveries,
           NewDelivery(t.dispatch, t.webhook, t.payload, t.attempt + 1, ok))
    /\ IF ~ok /\ t.attempt < t.webhook.retryCount
       THEN /\ retryTimers' = (retryTimers \ {t}) \cup
                   {RetryTimer(t.dispatch, t.webhook, t.payload, t.attempt + 1)}
            /\ scheduled' = scheduled \cup {RetryCall(t.dispatch, t.attempt + 1)}
       ELSE /\ retryTimers' = retryTimers \ {t}
            /\ UNCHANGED scheduled
    /\ UNCHANGED <<serviceVars, now, transactions, txnTimers, initiateVars, callbackVars, webhooks,
                   inflight>>

\* ---------------------------------------------------------- authentication
MaxRegisters == 2
MaxLogins == 7
MaxRunningLogins == 2

LockThreshold == 5
LockWindow == 900000

\* Array.from(users.values()).find(user => user.username === username)
getUserByUsername(username) ==
    LET ids == {i \in 1..Len(users) : users[i].username = username}
    IN IF ids = {} THEN None
       ELSE Some(users[CHOOSE i \in ids : \A j \in ids : i <= j])

\* Array.from(users.values()).find(user => user.email === email)
getUserByEmail(email) ==
    LET ids == {i \in 1..Len(users) : users[i].email = email}
    IN IF ids = {} THEN None
       ELSE Some(users[CHOOSE i \in ids : \A j \in ids : i <= j])

\* POST /api/auth/register starts: the handler calls getUserByUsername and is
\* suspended at the await
RegisterGet(username, email, password) ==
    /\ nRegisters < MaxRegisters
    /\ nRegisters' = nRegisters + 1
    /\ registers' = registers \cup
           {[ n |-> nRegisters + 1, username |-> username, email |-> email,
              password |-> password, pc |-> "username",
              existingUser |-> IsSome(getUserByUsername(username)),
              existingEmail |-> FALSE ]}
    /\ UNCHANGED <<now, paymentVars, tokenVars, signatureVars,
                   users, logins, nLogins>>

\* register resumes with existingUser: a taken username is answered 409;
\* otherwise the handler calls getUserByEmail and is suspended
RegisterEmail(r) ==
    /\ r \in registers
    /\ r.pc = "username"
    /\ registers' = IF r.existingUser
                    THEN registers \ {r}
                    ELSE (registers \ {r}) \cup
                         {[r EXCEPT !.pc = "email",
                                    !.existingEmail = IsSome(getUserByEmail(r.email))]}
    /\ UNCHANGED <<now, paymentVars, tokenVars, signatureVars,
                   users, nRegisters, logins, nLogins>>

\* register resumes with existingEmail: a taken email is answered 409;
\* otherwise the handler starts bcrypt.hash(password, 12) and is suspended
RegisterHash(r) ==
    /\ r \in registers
    /\ r.pc = "email"
    /\ registers' = IF r.existingEmail
                    THEN registers \ {r}
                    ELSE (registers \ {r}) \cup {[r EXCEPT !.pc = "hash"]}
    /\ UNCHANGED <<now, paymentVars, tokenVars, signatureVars,
                   users, nRegisters, logins, nLogins>>

\* the status register answers when it resumes at position pc
RegisterStatus(r) ==
    IF (r.pc = "username" /\ r.existingUser) \/ (r.pc = "email" /\ r.existingEmail)
    THEN 409
    ELSE 201

\* register resumes with the hash: createUser stores the user under the next
\* id, whatever the map holds by now, and the route answers 201
RegisterCreate(r) ==
    /\ r \in registers
    /\ r.pc = "hash"
    /\ users' = Append(users, NewUser(Len(users) + 1, r.username, r.email,
                                      r.password, TRUE, now))
    /\ registers' = registers \ {r}
    /\ UNCHANGED <<now, paymentVars, tokenVars, signatureVars,
                   nRegisters, logins, nLogins>>

\* user.lockedUntil && new Date() < user.lockedUntil
Locked(user) == IsSome(user.lockedUntil) /\ now < user.lockedUntil[1]

\* login's checks on the user getUserByUsername returned: an unknown, inactive
\* or locked account is answered 401 before the password is looked at
LoginRejected(found) ==
    \/ found = None
    \/ ~found[1].isActive
    \/ Locked(found[1])

\* the status login answers before the password is looked at; None when the
\* handler goes on to bcrypt.compare
LoginGetStatus(username) ==
    IF LoginRejected(getUserByUsername(username)) THEN Some(401) ELSE None

\* bcrypt.compare(password, user.password): true only against the bcrypt hash
\* of the same password; a stored value that is no hash compares false
Compare(password, stored, hashed) == hashed /\ password = stored

\* MemStorage.updateUser merges into the stored user; an unknown id changes nothing
updateUser(id, updates) ==
    IF id \in 1..Len(users)
    THEN [users EXCEPT ![id] = Merge(users[id], updates)]
    ELSE users

\* an increment that never locks the account
incrementWithoutLock(id) ==
    IF id \in 1..Len(users)
    THEN updateUser(id, [failedLoginAttempts |-> users[id].failedLoginAttempts + 1,
                         lockedUntil |-> None])
    ELSE users

\* MemStorage.incrementFailedLoginAttempts: the counter goes up by one, and
\* from 5 failures on lockedUntil is set 15 minutes ahead (null below 5)
incrementFailedLoginAttempts(id) ==
    IF id \in 1..Len(users)
    THEN LET failedAttempts == users[id].failedLoginAttempts + 1
         IN updateUser(id, [failedLoginAttempts |-> failedAttempts,
                            lockedUntil |-> IF failedAttempts >= LockThreshold
                                            THEN Some(now + LockWindow)
                                            ELSE None])
    ELSE users

\* MemStorage.resetFailedLoginAttempts
resetFailedLoginAttempts(id) ==
    updateUser(id, [failedLoginAttempts |-> 0, lockedUntil |-> None])

\* POST /api/auth/login starts: getUserByUsername, the active and lock checks,
\* then bcrypt.compare against the password of the user just read
LoginGet(username, password) ==
    /\ nLogins < MaxLogins
    /\ Cardinality(logins) < MaxRunningLogins
    /\ nLogins' = nLogins + 1
    /\ LET found == getUserByUsername(username)
       IN logins' = IF LoginRejected(found)
                    THEN logins
                    ELSE logins \cup
                         {[ n |-> nLogins + 1, userId |-> found[1].id,
                            password |-> password, stored |-> found[1].password,
                            hashed |-> found[1].hashed, pc |-> "compare" ]}
    /\ UNCHANGED <<now, paymentVars, tokenVars, signatureVars,
                   users, registers, nRegisters>>

\* the status login answers once bcrypt.compare has resolved
LoginCompareStatus(l) ==
    IF Compare(l.password, l.stored, l.hashed) THEN 200 ELSE 401

\* login resumes with the comparison: a wrong password increments the failure
\* counter and is answered 401; a right one resets the counter and the lock
LoginCompare(l) ==
    /\ l \in logins
    /\ l.pc = "compare"
    /\ IF Compare(l.password, l.stored, l.hashed)
       THEN /\ users' = resetFailedLoginAttempts(l.userId)
            /\ logins' = (logins \ {l}) \cup {[l EXCEPT !.pc = "lastLogin"]}
       ELSE /\ users' = incrementFailedLoginAttempts(l.userId)
            /\ logins' = logins \ {l}
    /\ UNCHANGED <<now, paymentVars, tokenVars, signatureVars,
                   registers, nRegisters, nLogins>>

\* login resumes after the reset: updateLastLogin, then the route answers 200
LoginLastLogin(l) ==
    /\ l \in logins
    /\ l.pc = "lastLogin"
    /\ users' = updateUser(l.userId, [lastLoginAt |-> Some(now)])
    /\ logins' = logins \ {l}
    /\ UNCHANGED <<now, paymentVars, tokenVars, signatureVars,
                   registers, nRegisters, nLogins>>

\* names, addresses and passwords the authentication runs use: one fresh
\* account and the default merchant's name and address
Usernames == {"alice", "merchant"}
Emails == {"alice@example.com", "merchant@kenyanpay.com"}
Passwords == {"right-pass", "wrong-pass"}

\* ------------------------------------------------- M-Pesa access token
MaxTokenCalls == 3
MaxTokenTicks == 3

\* expires_in of the OAuth response, in seconds
ExpiresIn == {3599}

\* this.accessToken && this.tokenExpiry && new Date() < this.tokenExpiry
TokenCached == IsSome(accessToken) /\ IsSome(tokenExpiry) /\ now < tokenExpiry[1]

\* getAccessToken is called: a cached token that has not expired is returned
\* at once; otherwise the OAuth request is sent and the call is suspended
GetAccessToken ==
    /\ nTokenCalls < MaxTokenCalls
    /\ nTokenCalls' = nTokenCalls + 1
    /\ tokenFetches' = IF TokenCached
                       THEN tokenFetches
                       ELSE tokenFetches \cup {[n |-> nTokenCalls + 1]}
    /\ UNCHANGED <<now, paymentVars, authVars, signatureVars, accessToken, tokenExpiry>>

\* the OAuth request of a suspended call ends: a response stores the token and
\* its expiry and the call returns it; a failure throws
TokenResponse(f, ok, expires_in) ==
    /\ f \in tokenFetches
    /\ tokenFetches' = tokenFetches \ {f}
    /\ IF ok
       THEN /\ accessToken' = Some(f.n)
            /\ tokenExpiry' = Some(now + expires_in * 1000)
       ELSE UNCHANGED <<accessToken, tokenExpiry>>
    /\ UNCHANGED <<now, paymentVars, authVars, signatureVars, nTokenCalls>>

\* ------------------------------------------------- webhook signatures
MaxChecks == 2

\* what the name crypto refers to at module scope of webhooks.ts, which
\* imports no crypto module: the Web Crypto global where the runtime defines
\* one (it has no timingSafeEqual), nothing otherwise
Runtimes == {"webcrypto-global", "no-global"}
GlobalCrypto(rt) ==
    IF rt = "webcrypto-global"
    THEN Some({"subtle", "getRandomValues", "randomUUID"})
    ELSE None

\* the process starts under one runtime
Boot(rt) ==
    /\ runtime = None
    /\ runtime' = Some(rt)
    /\ UNCHANGED <<now, paymentVars, authVars, tokenVars, signatureChecks>>

\* payloads as byte strings, and secrets
Bytes == {0, 1}
SignedPayloads == {<<b1, b2>> : b1 \in Bytes, b2 \in Bytes}
Secrets == {"s1", "s2"}

\* JSON.stringify(payload): the bytes of the payload between delimiters
Stringify(payload) == <<123>> \o payload \o <<125>>

\* createHmac('sha256', secret).update(data).digest('hex'): a keyed hash that
\* has no collisions on the inputs used here
Hmac(secret, data) == [key |-> secret, data |-> data]

\* generateSignature(payload, secret); its crypto is the module it requires
generateSignature(payload, secret) == Hmac(secret, Stringify(payload))

\* verifyWebhookSignature(payload, signature, secret): the name crypto is not
\* the module generateSignature requires but the global one; the call throws
\* a ReferenceError where no global is defined and a TypeError where the
\* global has no timingSafeEqual, and otherwise returns the comparison
verifyWebhookSignature(rt, payload, signature, secret) ==
    LET expectedSignature == generateSignature(payload, secret)
    IN IF GlobalCrypto(rt) = None
       THEN [threw |-> "ReferenceError", value |-> None]
       ELSE IF "timingSafeEqual" \notin GlobalCrypto(rt)[1]
       THEN [threw |-> "TypeError", value |-> None]
       ELSE [threw |-> "", value |-> Some(signature = expectedSignature)]

\* a receiver verifies a signature generated over some payload with some secret
VerifyWebhookSignature(payload, signature, secret) ==
    /\ IsSome(runtime)
    /\ Cardinality(signatureChecks) < MaxChecks
    /\ signatureChecks' = signatureChecks \cup
           {[ payload |-> payload, signature |-> signature, secret |-> secret,
              result |-> verifyWebhookSignature(runtime[1], payload, signature, secret) ]}
    /\ UNCHANGED <<now, paymentVars, authVars, tokenVars, runtime>>

\* the next-state relation over given sets of callers, providers and kinds of
\* callback correlation id
NextOver(callers, providers, kinds) ==
    \/ \E d \in TickSteps : Tick(d, MaxTicks)
    \/ \E u \in callers, p \in providers, a \in Amounts : CreateIntent(u, p, a)
    \/ \E tm \in txnTimers, ok \in BOOLEAN : CompletionTimer(tm, ok)
    \/ \E u \in callers, id \in RequestIds(kinds) : InitiateGet(u, id)
    \/ \E q \in initiates : InitiateCheck(q)
    \/ \E q \in initiates, ok \in BOOLEAN : InitiateProvider(q, ok)
    \/ \E body \in MpesaBodies(kinds) : MpesaWebhook(body)
    \/ \E body \in EquityBodies(kinds) : EquityWebhook(body)
    \/ \E c \in callbacks : ProcessWebhookHooks(c)
    \/ \E c \in callbacks : ProcessWebhookDeliver(c)
    \/ \E c \in callbacks : ProcessWebhookDone(c)

\* the transaction lifecycle: one merchant, a provider with completion timer
\* and one without, callbacks that carry a transaction key or an id returned
\* by initiate
Next == NextOver({2}, {"mpesa", "equity"}, {"key", "issued"})

Spec == Init /\ [][Next]_vars

\* the dispatcher: a merchant's subscription, transactions without completion
\* timer, Equity callbacks that carry a transaction key, and the deliveries
\* and retries they start
NextDispatch ==
    \/ \E d \in TickSteps : Tick(d, MaxRetryTicks)
    \/ \E ev \in EventSets, rc \in RetryCounts : CreateWebhook(2, ev, rc)
    \/ \E a \in Amounts : CreateIntent(2, "equity", a)
    \/ \E body \in EquityBodies({"key"}) : EquityWebhook(body)
    \/ \E c \in callbacks : ProcessWebhookHooks(c)
    \/ \E c \in callbacks : ProcessWebhookDeliver(c)
    \/ \E c \in callbacks : ProcessWebhookDone(c)
    \/ \E d \in inflight, ok \in BOOLEAN : DeliverWebhook(d, ok)
    \/ \E t \in retryTimers, ok \in BOOLEAN : ScheduleRetry(t, ok)

SpecDispatch == Init /\ [][NextDispatch]_vars

\* the subscription lifecycle: a merchant's subscription is created, switched
\* off and on, and receives the deliveries and retries Equity callbacks start
NextSubscription ==
    \/ \E d \in TickSteps : Tick(d, MaxRetryTicks)
    \/ \E ev \in SubscriptionEventSets, rc \in SubscriptionRetryCounts : CreateWebhook(2, ev, rc)
    \/ \E id \in 1..Len(webhooks), b \in BOOLEAN : UpdateWebhook(id, b)
    \/ \E a \in Amounts : CreateIntent(2, "equity", a)
    \/ \E body \in EquityBodies({"key"}) : EquityWebhook(body)
    \/ \E c \in callbacks : ProcessWebhookHooks(c)
    \/ \E c \in callbacks : ProcessWebhookDeliver(c)
    \/ \E c \in callbacks : ProcessWebhookDone(c)
    \/ \E d \in inflight, ok \in BOOLEAN : DeliverWebhook(d, ok)
    \/ \E t \in retryTimers, ok \in BOOLEAN : ScheduleRetry(t, ok)

SpecSubscription == Init /\ [][NextSubscription]_vars

\* initiation: both users, a provider with adapter and completion timer and a
\* provider without adapter, requests that name a stored transaction or none
NextInitiate ==
    \/ \E d \in TickSteps : Tick(d, MaxTicks)
    \/ \E u \in Users, p \in {"mpesa", "card"}, a \in Amounts : CreateIntent(u, p, a)
    \/ \E tm \in txnTimers, ok \in BOOLEAN : CompletionTimer(tm, ok)
    \/ \E u \in Users, id \in RequestIds({"unknown"}) : InitiateGet(u, id)
    \/ \E q \in initiates : InitiateCheck(q)
    \/ \E q \in initiates, ok \in BOOLEAN : InitiateProvider(q, ok)

SpecInitiate == Init /\ [][NextInitiate]_vars

\* the transaction views: both users create transactions with and without
\* completion timer, and the timers settle them
NextList ==
    \/ \E d \in TickSteps : Tick(d, MaxTicks)
    \/ \E u \in Users, p \in {"mpesa", "equity"}, a \in Amounts :
          CreateIntentUpTo(MaxListTxns, u, p, a)
    \/ \E tm \in txnTimers, ok \in BOOLEAN : CompletionTimer(tm, ok)

SpecList == Init /\ [][NextList]_vars

\* the callback ingress: create-intent requests with any amount, and
\* callbacks that carry a transaction key or an id that names nothing, with
\* any Amount
NextIngress ==
    \/ \E a \in Amounts \cup {0, -50000} : CreateIntent(2, "equity", a)
    \/ \E body \in MpesaBodies({"key", "unknown"}) \cup
                    {MpesaAmountBody(c, a) : c \in CorrelationIds({"key"}), a \in CallbackAmounts} :
          MpesaWebhook(body)
    \/ \E body \in EquityBodies({"key", "unknown"}) : EquityWebhook(body)
    \/ \E c \in callbacks : ProcessWebhookHooks(c)
    \/ \E c \in callbacks : ProcessWebhookDeliver(c)
    \/ \E c \in callbacks : ProcessWebhookDone(c)

SpecIngress == Init /\ [][NextIngress]_vars

\* the event loop is idle until the earliest pending retry timer is due
TimerWait ==
    /\ retryTimers # {}
    /\ \A t \in retryTimers : t.fireAt > now
    /\ now' = (CHOOSE t \in retryTimers : \A u \in retryTimers : t.fireAt <= u.fireAt).fireAt
    /\ UNCHANGED <<serviceVars, transactions, txnTimers, initiateVars, callbackVars,
                   webhooks, dispatchVars>>

\* every attempt limit insertWebhookSchema admits
BackoffRetryCounts == 0..10

\* the whole retry schedule: a merchant's subscription with any admitted
\* attempt limit, one successful Equity callback that carries a transaction
\* key, and every delivery and retry it starts, against an endpoint that
\* answers or fails each attempt
NextBackoff ==
    \/ TimerWait
    \/ \E ev \in EventSets, rc \in BackoffRetryCounts : CreateWebhook(2, ev, rc)
    \/ \E a \in Amounts : CreateIntent(2, "equity", a)
    \/ \E c \in CorrelationIds({"key"}) :
          nCallbacks = 0 /\ EquityWebhook(EquityBody(c, "SUCCESS"))
    \/ \E c \in callbacks : ProcessWebhookHooks(c)
    \/ \E c \in callbacks : ProcessWebhookDeliver(c)
    \/ \E c \in callbacks : ProcessWebhookDone(c)
    \/ \E d \in inflight, ok \in BOOLEAN : DeliverWebhook(d, ok)
    \/ \E t \in retryTimers, ok \in BOOLEAN : ScheduleRetry(t, ok)

\* what the runtime guarantees: a pending timer becomes due and fires, a
\* handler resumes after its await, and an HTTP POST ends (axios timeout)
FairBackoff ==
    /\ WF_vars(TimerWait)
    /\ WF_vars(\E c \in callbacks : ProcessWebhookHooks(c))
    /\ WF_vars(\E c \in callbacks : ProcessWebhookDeliver(c))
    /\ WF_vars(\E c \in callbacks : ProcessWebhookDone(c))
    /\ WF_vars(\E d \in inflight, ok \in BOOLEAN : DeliverWebhook(d, ok))
    /\ WF_vars(\E t \in retryTimers, ok \in BOOLEAN : ScheduleRetry(t, ok))

SpecBackoff == Init /\ [][NextBackoff]_vars /\ FairBackoff

\* registration: requests for a fresh or a taken username and email, processed
\* concurrently
NextRegister ==
    \/ \E d \in TickSteps : Tick(d, MaxTicks)
    \/ \E u \in Usernames, e \in Emails : RegisterGet(u, e, "right-pass")
    \/ \E r \in registers : RegisterEmail(r)
    \/ \E r \in registers : RegisterHash(r)
    \/ \E r \in registers : RegisterCreate(r)

SpecRegister == Init /\ [][NextRegister]_vars

\* login: one registered account, and login requests for it with the right
\* and a wrong password while time passes
NextLogin ==
    \/ \E d \in TickSteps : Tick(d, MaxRetryTicks)
    \/ nRegisters = 0 /\ RegisterGet("alice", "alice@example.com", "right-pass")
    \/ \E r \in registers : RegisterEmail(r)
    \/ \E r \in registers : RegisterHash(r)
    \/ \E r \in registers : RegisterCreate(r)
    \/ \E p \in Passwords : LoginGet("alice", p)
    \/ \E l \in logins : LoginCompare(l)
    \/ \E l \in logins : LoginLastLogin(l)

SpecLogin == Init /\ [][NextLogin]_vars

\* the access token: M-Pesa operations call getAccessToken while time passes
\* and OAuth requests are answered or fail
NextToken ==
    \/ \E d \in TickSteps : Tick(d, MaxTokenTicks)
    \/ GetAccessToken
    \/ \E f \in tokenFetches, ok \in BOOLEAN, e \in ExpiresIn : TokenResponse(f, ok, e)

SpecToken == Init /\ [][NextToken]_vars

\* signature verification: signatures generated over a payload with a secret
\* are verified against the same or another payload and secret
NextSignature ==
    \/ \E rt \in Runtimes : Boot(rt)
    \/ \E p \in SignedPayloads, q \in SignedPayloads, s \in Secrets, t \in Secrets :
          VerifyWebhookSignature(p, generateSignature(q, t), s)

SpecSignature == Init /\ [][NextSignature]_vars

\* outcome notification: a merchant's subscription that makes no retry,
\* transactions with and without completion timer, callbacks that carry a
\* transaction key, and the first delivery attempts they start
NextNotify ==
    \/ \E d \in TickSteps : Tick(d, MaxTicks)
    \/ \E ev \in EventSets : CreateWebhook(2, ev, 0)
    \/ \E p \in {"mpesa", "equity"}, a \in Amounts : CreateIntent(2, p, a)
    \/ \E tm \in txnTimers, ok \in BOOLEAN : CompletionTimer(tm, ok)
    \/ \E body \in MpesaBodies({"key"}) : MpesaWebhook(body)
    \/ \E body \in EquityBodies({"key"}) : EquityWebhook(body)
    \/ \E c \in callbacks : ProcessWebhookHooks(c)
    \/ \E c \in callbacks : ProcessWebhookDeliver(c)
    \/ \E c \in callbacks : ProcessWebhookDone(c)
    \/ \E d \in inflight, ok \in BOOLEAN : DeliverWebhook(d, ok)

\* what the runtime guarantees: time passes, a due timer fires, a handler
\* resumes after its await, and an HTTP POST ends (axios timeout).  Requests
\* from outside are under no obligation to arrive.
FairNotify ==
    /\ WF_vars(\E d \in TickSteps : Tick(d, MaxTicks))
    /\ WF_vars(\E tm \in txnTimers, ok \in BOOLEAN : CompletionTimer(tm, ok))
    /\ WF_vars(\E c \in callbacks : ProcessWebhookHooks(c))
    /\ WF_vars(\E c \in callbacks : ProcessWebhookDeliver(c))
    /\ WF_vars(\E c \in callbacks : ProcessWebhookDone(c))
    /\ WF_vars(\E d \in inflight, ok \in BOOLEAN : DeliverWebhook(d, ok))

SpecNotify == Init /\ [][NextNotify]_vars /\ FairNotify

\* ================================================================ claims

\* the status a webhookResult status stands for
TargetStatus(status) == IF status = "completed" THEN COMPLETED ELSE FAILED

\* a provider-callback request was received in this step
CallbackReceived == nCallbacks' = nCallbacks + 1

\* the processWebhook runs started in this step
NewCallbacks == callbacks' \ callbacks

\* C1: once a transaction's status is COMPLETED, FAILED, CANCELLED or REFUNDED,
\* no step changes it to a different value.
C1_TerminalStatusIsFinal ==
    [][\A k \in DOMAIN transactions :
          transactions[k].status \in TerminalStatus
              => transactions'[k].status = transactions[k].status]_vars

\* C2: every change of a stored transaction's status is PENDING -> PROCESSING
\* made by an initiate handler passing its checks, or PROCESSING ->
\* COMPLETED/FAILED made by the processing of a provider callback; and no
\* transaction leaves the store.
C2_OnlyLifecycleTransitions ==
    [][/\ DOMAIN transactions \subseteq DOMAIN transactions'
       /\ \A k \in DOMAIN transactions :
            LET a == transactions[k].status
                b == transactions'[k].status
            IN a # b =>
                 \/ /\ a = PENDING
                    /\ b = PROCESSING
                    /\ \E q \in initiates :
                          q.id = k /\ q.pc = "got" /\ [q EXCEPT !.pc = "updated"] \in initiates'
                 \/ /\ a = PROCESSING
                    /\ b \in {COMPLETED, FAILED}
                    /\ CallbackReceived]_vars

\* C3: however the awaits of concurrent initiate requests interleave, the
\* provider adapter is called at most once for a transaction.
C3_ProviderCalledAtMostOnce ==
    \A k \in DOMAIN providerCalls : providerCalls[k] <= 1

\* the fields of a transaction C4 speaks of
SettledFields(t) == <<t.status, t.completedAt, t.updatedAt, t.mpesaReceiptNumber>>

\* C4: processing a provider callback with the correlation id and outcome of a
\* callback already processed, on a transaction that is in the state that
\* outcome names, leaves status, completedAt, updatedAt and the receipt as the
\* first processing left them.
C4_DuplicateCallbackIsNoOp ==
    [][\A c \in NewCallbacks :
          ( /\ CallbackReceived
            /\ c.transactionId \in DOMAIN transactions
            /\ \E e \in callbacks : /\ e.transactionId = c.transactionId
                                    /\ e.status = c.status
                                    /\ e.receiptNumber = c.receiptNumber
            /\ transactions[c.transactionId].status = TargetStatus(c.status)
            /\ transactions[c.transactionId].mpesaReceiptNumber = c.receiptNumber )
          => SettledFields(transactions'[c.transactionId])
               = SettledFields(transactions[c.transactionId])]_vars

\* what C5 requires of transaction k after a callback with the given outcome
\* and receipt has been processed
SettledAs(k, success, receipt) ==
    /\ transactions'[k].status = (IF success THEN COMPLETED ELSE FAILED)
    /\ IsSome(transactions'[k].completedAt)
    /\ transactions'[k].mpesaReceiptNumber = (IF success THEN receipt ELSE None)

\* C5: for a created and initiated transaction, the processing of a callback
\* that carries the correlation id the initiate response returned sets the
\* transaction COMPLETED with the receipt and completedAt when the callback
\* reports success (ResultCode 0, status SUCCESS), and FAILED with no receipt
\* and completedAt set when it reports failure.
C5_CallbackSettlesInitiated ==
    [][\A k \in DOMAIN transactions :
          IsSome(issued[k]) =>
            /\ \A rc \in ResultCodes :
                  MpesaWebhook(MpesaBody(issued[k][1], rc))
                      => SettledAs(k, rc.v = 0, Some("QK"))
            /\ \A st \in {"SUCCESS", "FAILED"} :
                  EquityWebhook(EquityBody(issued[k][1], st))
                      => SettledAs(k, st = "SUCCESS", Some("EQ"))]_vars

\* C6: a transaction's status becomes COMPLETED only in the processing of a
\* successful provider callback whose correlation id is the checkoutRequestId
\* stored on the transaction.
C6_CompletedOnlyByMatchingCallback ==
    [][\A k \in DOMAIN transactions :
          (transactions[k].status # COMPLETED /\ transactions'[k].status = COMPLETED)
              => /\ CallbackReceived
                 /\ \E c \in NewCallbacks :
                       /\ c.status = "completed"
                       /\ transactions[k].checkoutRequestId = Some(c.transactionId)]_vars

\* C7: a PENDING transaction whose expiry time (creation + 30 minutes) has
\* passed is not moved to PROCESSING and no provider adapter is called for it.
C7_ExpiredIsNotInitiated ==
    [][\A k \in DOMAIN transactions :
          ( /\ transactions[k].status = PENDING
            /\ now >= transactions[k].createdAt + ExpiryWindow )
              => /\ transactions'[k].status # PROCESSING
                 /\ providerCalls'[k] = providerCalls[k]]_vars

\* C8: in every reachable state, completedAt of a stored transaction is set
\* if and only if its status is COMPLETED, FAILED, CANCELLED or REFUNDED.
C8_CompletedAtIffTerminal ==
    \A k \in DOMAIN transactions :
        IsSome(transactions[k].completedAt) <=> transactions[k].status \in TerminalStatus

\* C9: the transaction createTransaction stores has status PENDING,
\* completedAt null and expiresAt equal to its creation time plus 30 minutes.
C9_CreatedPendingWithExpiry ==
    [][\A k \in DOMAIN transactions' \ DOMAIN transactions :
          /\ transactions'[k].status = PENDING
          /\ transactions'[k].completedAt = None
          /\ transactions'[k].expiresAt = Some(transactions'[k].createdAt + ExpiryWindow)]_vars

\* the delivery records of one dispatch to one subscription, in creation order
DispatchRecords(D) == SelectSeq(webhookDeliveries, LAMBDA r : r.dispatch = D)

\* the dispatches that have a delivery record
Dispatches == {webhookDeliveries[i].dispatch : i \in 1..Len(webhookDeliveries)}

\* the endpoint failed the first two attempts of dispatch D and answered the third
FailFailSucceed(D) ==
    LET recs == DispatchRecords(D)
    IN /\ Len(recs) >= 3
       /\ ~recs[1].success
       /\ ~recs[2].success
       /\ recs[3].success

\* C10: a dispatch to a subscription with attempt limit 3 whose endpoint fails
\* the first two attempts and succeeds on the third has exactly 3 delivery
\* records, numbered 1, 2, 3 in creation order, no further attempt pending,
\* and a longer scheduled delay before attempt 3 than before attempt 2.
C10_ThreeRecordsGrowingDelay ==
    \A D \in Dispatches :
        (FailFailSucceed(D) /\ webhooks[D[2]].retryCount = DefaultRetryCount) =>
            LET recs == DispatchRecords(D)
                calls == {c \in scheduled : c.dispatch = D}
            IN /\ Len(recs) = 3
               /\ \A i \in 1..3 : recs[i].attempt = i
               /\ \A t \in retryTimers : t.dispatch # D
               /\ \A d \in inflight : d.dispatch # D
               /\ {c.attempt : c \in calls} = {1, 2}
               /\ \A c2, c3 \in calls :
                     (c2.attempt = 1 /\ c3.attempt = 2) => c3.delay > c2.delay
               /\ \A c \in calls :
                     recs[c.attempt + 1].createdAt >= recs[c.attempt].createdAt + c.delay

\* a dispatch to a subscription with attempt limit 3 has failed twice and then succeeded
C10_Witness ==
    \E D \in Dispatches :
        FailFailSucceed(D) /\ webhooks[D[2]].retryCount = DefaultRetryCount

\* the attempt limit the subscription of dispatch D was created with
LimitOf(D) == webhooks[D[2]].retryCount

\* C11: for one dispatch to one subscription with attempt limit retryCount >= 1,
\* the number of delivery attempts recorded, the first included, never exceeds
\* retryCount.
C11_AttemptsWithinLimit ==
    \A D \in Dispatches :
        LimitOf(D) >= 1 => Len(DispatchRecords(D)) <= LimitOf(D)

\* the delivery records appended in this step
NewRecords ==
    {webhookDeliveries'[i] : i \in (Len(webhookDeliveries) + 1)..Len(webhookDeliveries')}

\* C12: a subscription whose active flag is false receives no delivery
\* attempt: a dispatch starts no delivery to a subscription it read as
\* inactive, and a retry whose subscription has been switched off before it
\* fires is neither sent nor recorded.
C12_InactiveGetsNoAttempt ==
    [][/\ \A d \in inflight' \ inflight : d.webhook.isActive
       /\ \A r \in NewRecords :
             r.attempt > 1 => webhooks[r.webhookId].isActive]_vars

\* C13: a dispatch of event E starts deliveries only to subscriptions whose
\* subscribed event set contains E, so that every delivery record names an
\* event its subscription is subscribed to.
C13_OnlySubscribedEvents ==
    /\ \A d \in inflight : d.payload.event \in d.webhook.events
    /\ \A i \in 1..Len(webhookDeliveries) :
          webhookDeliveries[i].event \in webhooks[webhookDeliveries[i].webhookId].events

\* transaction n has outcome s, and subscription w of its owner is active and
\* was created before the outcome was written
Settled(n, w, s) ==
    /\ TxnId(n) \in DOMAIN transactions
    /\ w \in 1..Len(webhooks)
    /\ transactions[TxnId(n)].status = s
    /\ IsSome(transactions[TxnId(n)].completedAt)
    /\ webhooks[w].userId = transactions[TxnId(n)].userId
    /\ webhooks[w].isActive
    /\ webhooks[w].createdAt < transactions[TxnId(n)].completedAt[1]

\* subscription w has a delivery record for outcome s of transaction n
Notified(n, w, s) ==
    \E i \in 1..Len(webhookDeliveries) :
        /\ webhookDeliveries[i].webhookId = w
        /\ webhookDeliveries[i].transactionId = TxnId(n)
        /\ webhookDeliveries[i].event =
               (IF s = COMPLETED THEN "payment.completed" ELSE "payment.failed")

\* C14: whenever a transaction's status has become COMPLETED or FAILED, every
\* subscription of its owner that was active at that moment eventually has a
\* delivery record for that outcome.
C14_OutcomeIsNotified ==
    \A n \in 1..MaxTxns : \A w \in 1..MaxWebhooks : \A s \in {COMPLETED, FAILED} :
        Settled(n, w, s) ~> Notified(n, w, s)

\* two delivery records belong to the same (subscription, transaction, event)
SameTriple(r, q) ==
    /\ r.webhookId = q.webhookId
    /\ r.transactionId = q.transactionId
    /\ r.event = q.event

\* C15: a step appends at most one delivery record and changes or removes
\* none, and the records of one (subscription, transaction, event) triple
\* carry strictly increasing attempt numbers in creation order.
C15_RecordsAppendOnlyIncreasing ==
    [][/\ Len(webhookDeliveries') \in {Len(webhookDeliveries), Len(webhookDeliveries) + 1}
       /\ SubSeq(webhookDeliveries', 1, Len(webhookDeliveries)) = webhookDeliveries
       /\ \A i, j \in 1..Len(webhookDeliveries') :
             (i < j /\ SameTriple(webhookDeliveries'[i], webhookDeliveries'[j]))
                 => webhookDeliveries'[i].attempt < webhookDeliveries'[j].attempt]_vars

\* an M-Pesa payload that is structurally malformed: no CheckoutRequestID, or
\* callback metadata that is no list of items
StructurallyMalformed(body) == body.CheckoutRequestID = None \/ body.Item # "array"

\* C16: the callback ingress answers 400 only to a structurally malformed
\* payload, answers 200 to every other payload whatever its outcome, never
\* answers 500, and a malformed payload changes no stored transaction.
C16_IngressAnswers ==
    [][/\ \A body \in MpesaBodies({"key", "issued"}) :
             MpesaWebhook(body) =>
                 /\ MpesaWebhookStatus(body) = 400 => StructurallyMalformed(body)
                 /\ ~StructurallyMalformed(body) => MpesaWebhookStatus(body) = 200
                 /\ MpesaWebhookStatus(body) # 500
                 /\ StructurallyMalformed(body) => transactions' = transactions
       /\ \A body \in EquityBodies({"key", "issued"}) :
             EquityWebhook(body) => EquityWebhookStatus(body) = 200]_vars

\* a provider-adapter call has been made for transaction k and none has returned
ProviderFailed(k) == providerCalls[k] >= 1 /\ issued[k] = None

C18_TotalCountsAllMatching ==
    \A u \in Users, page \in Pages, limit \in Limits,
       st \in StatusFilters, pv \in ProviderFilters :
        ListTransactions(u, page, limit, st, pv).total = Len(Matching(u, st, pv))

\* C19: an initiate request is rejected with 404 when the id it names is not
\* stored, with 403 when the transaction it reads belongs to another user,
\* and with 400 when the transaction it reads is the caller's and not PENDING;
\* a rejected request changes no stored transaction and calls no provider
\* adapter, and only a request that passed the checks goes on to the adapter.
C19_InitiateRejections ==
    [][/\ \A q \in initiates' \ initiates :
             q.pc = "got" =>
                 /\ q.id \notin DOMAIN transactions => InitiateCheckStatus(q) = 404
                 /\ ( /\ q.id \in DOMAIN transactions
                      /\ transactions[q.id].userId # q.userId )
                        => InitiateCheckStatus(q) = 403
                 /\ ( /\ q.id \in DOMAIN transactions
                      /\ transactions[q.id].userId = q.userId
                      /\ transactions[q.id].status # PENDING )
                        => InitiateCheckStatus(q) = 400
       /\ \A q \in initiates :
             (q.pc = "got" /\ InitiateCheckStatus(q) # 0 /\ InitiateCheck(q))
                 => /\ transactions' = transactions
                    /\ providerCalls' = providerCalls
                    /\ \A r \in initiates' : r.n # q.n
       /\ \A q \in initiates' :
             q.pc = "updated" => /\ q.transaction # None
                                 /\ q.transaction[1].userId = q.userId
                                 /\ q.transaction[1].status = PENDING]_vars

\* two initiate requests have been answered, and a stored transaction of a
\* provider with adapter is still PENDING with no adapter call made for it:
\* both requests were rejected
C19_Witness ==
    /\ nInitiates = 2
    /\ initiates = {}
    /\ \E k \in DOMAIN transactions :
          /\ transactions[k].provider = "mpesa"
          /\ transactions[k].status = PENDING
          /\ providerCalls[k] = 0

\* C20: a caller whose role is not admin gets 403 from GET /transactions/:id
\* for every stored transaction of another user, and every record the
\* transaction list returns to that caller is owned by the caller, for every
\* page, limit and filter.
C20_NoForeignTransaction ==
    \A u \in Users :
        Role(u) # "admin" =>
            /\ \A k \in DOMAIN transactions :
                  transactions[k].userId # u => GetTransactionStatus(u, k) = 403
            /\ \A page \in Pages, limit \in Limits,
                  st \in StatusFilters, pv \in ProviderFilters :
                  LET found == ListTransactions(u, page, limit, st, pv).transactions
                  IN \A i \in 1..Len(found) : found[i].userId = u

\* a merchant and another user both have a stored transaction, and the
\* merchant's list is not empty
C20_Witness ==
    \E u \in Users :
        /\ Role(u) # "admin"
        /\ \E k \in DOMAIN transactions : transactions[k].userId # u
        /\ Len(ListTransactions(u, 1, 0, None, None).transactions) >= 1

\* C24: in every reachable state every stored transaction has amount > 0.
C24_AmountPositive ==
    \A k \in DOMAIN transactions : transactions[k].amount > 0

\* C25: initiate writes PROCESSING only over PENDING: no step changes a
\* transaction's status to PROCESSING from a status other than PENDING, however
\* the request interleaves with a callback or the completion timer.
C25_ProcessingOnlyOverPending ==
    [][\A k \in DOMAIN transactions :
          (transactions'[k].status = PROCESSING /\ transactions[k].status # PROCESSING)
              => transactions[k].status = PENDING]_vars

\* C27: a well-formed callback whose correlation id names no stored
\* transaction is answered differently from a malformed payload and from a
\* callback applied to a stored transaction, and it changes no transaction
\* and creates no delivery record.
C27_UnknownIdIsDistinct ==
    [][\A rc \in ResultCodes :
          (TxnId(0) \notin DOMAIN transactions /\ MpesaWebhook(MpesaBody(TxnId(0), rc)))
              => /\ MpesaWebhookStatus(MpesaBody(TxnId(0), rc))
                       # MpesaWebhookStatus(MalformedMpesaBody)
                 /\ \A k \in DOMAIN transactions :
                       MpesaWebhookStatus(MpesaBody(TxnId(0), rc))
                           # MpesaWebhookStatus(MpesaBody(k, rc))
                 /\ transactions' = transactions
                 /\ webhookDeliveries' = webhookDeliveries]_vars

\* C29: once an attempt of a dispatch has succeeded, no further attempt of
\* that dispatch is sent or recorded: a record with success = TRUE is the last
\* record of its dispatch and carries its highest attempt number (so there is
\* at most one), and no delivery or retry of the dispatch is pending.
C29_SuccessEndsDispatch ==
    \A D \in Dispatches :
        LET recs == DispatchRecords(D)
        IN \A i \in 1..Len(recs) :
              recs[i].success =>
                  /\ i = Len(recs)
                  /\ \A j \in 1..Len(recs) : j # i => recs[j].attempt < recs[i].attempt
                  /\ \A t \in retryTimers : t.dispatch # D
                  /\ \A d \in inflight : d.dispatch # D

\* a retry of a dispatch has succeeded after a failed attempt, and the clock
\* has since passed the delay a further retry would have waited
C29_Witness ==
    \E D \in Dispatches :
        LET recs == DispatchRecords(D)
        IN /\ Len(recs) >= 2
           /\ ~recs[1].success
           /\ recs[Len(recs)].success
           /\ recs[Len(recs)].attempt <= LimitOf(D)
           /\ now >= recs[Len(recs)].createdAt + RetryDelay(recs[Len(recs)].attempt)

\* min(1000 * 2^(k-1), 30000) for k = 1..10, written out
BackoffTable == <<1000, 2000, 4000, 8000, 16000, 30000, 30000, 30000, 30000, 30000>>

\* the scheduleRetry calls made so far for dispatch D
CallsOf(D) == {c \in scheduled : c.dispatch = D}

\* C28: the delay scheduled before the k-th retry of a delivery is
\* min(1000 * 2^(k-1), 30000) ms for every k in 1..10: it doubles up to the
\* cap, never decreases with k, never exceeds 30000 ms, and the retry is not
\* recorded before that delay has passed.
C28_BackoffDelay ==
    /\ \A c \in scheduled :
          /\ c.attempt \in 1..10
          /\ c.delay = BackoffTable[c.attempt]
          /\ c.delay <= 30000
          /\ \A e \in CallsOf(c.dispatch) :
                /\ e.attempt <= c.attempt => e.delay <= c.delay
                /\ (e.attempt = c.attempt + 1 /\ e.delay < 30000) => e.delay = 2 * c.delay
    /\ \A D \in Dispatches :
          LET recs == DispatchRecords(D)
          IN \A i \in 2..Len(recs) :
                recs[i].createdAt >= recs[i - 1].createdAt + BackoffTable[i - 1]

\* the tenth retry of a dispatch has been scheduled and recorded
C28_Witness ==
    \E D \in Dispatches :
        /\ \E c \in CallsOf(D) : c.attempt = 10
        /\ Len(DispatchRecords(D)) = 11

\* dispatch D has an HTTP POST in flight or a retry timer pending
Pending(D) ==
    \/ \E d \in inflight : d.dispatch = D
    \/ \E t \in retryTimers : t.dispatch = D

\* dispatch D is over: nothing of it is pending, and it has a record
Terminated(D) ==
    /\ ~Pending(D)
    /\ Len(DispatchRecords(D)) >= 1

\* C30: every dispatch to a subscription terminates, for every retryCount in
\* 0..10 and every endpoint behaviour: after finitely many attempts either a
\* successful attempt is recorded or no retry remains scheduled; the number of
\* attempts is bounded by the attempt limit, and with retryCount = 0 a failed
\* first attempt schedules no retry.
C30_DispatchTerminates ==
    /\ \A n \in 1..MaxCallbacks, w \in 1..MaxWebhooks :
          Pending(<<n, w>>) ~> Terminated(<<n, w>>)
    /\ [](\A D \in Dispatches :
            /\ Len(DispatchRecords(D)) <= LimitOf(D) + 1
            /\ LimitOf(D) = 0 => CallsOf(D) = {} /\ \A t \in retryTimers : t.dispatch # D)

\* a dispatch to a subscription with retryCount = 0 has failed its only
\* attempt, and a dispatch has exhausted ten retries without a success
C30_Witness ==
    \E D \in Dispatches :
        LET recs == DispatchRecords(D)
        IN /\ ~Pending(D)
           /\ \A i \in 1..Len(recs) : ~recs[i].success
           /\ LimitOf(D) \in {0, 10}
           /\ Len(recs) = LimitOf(D) + 1

\* C23: no two stored users share a username or an email, also when two
\* registrations with the same username or email are processed concurrently;
\* a registration that finds its username or email taken is answered 409 and
\* creates no user.
C23_UniqueUsers ==
    /\ \A i, j \in 1..Len(users) :
          i # j => /\ users[i].username # users[j].username
                   /\ users[i].email # users[j].email
    /\ \A r \in registers :
          (r.existingUser \/ r.existingEmail) => r.pc # "hash" /\ RegisterStatus(r) = 409

\* a login request for user i was received in this step
LoginReceivedFor(i) ==
    /\ nLogins' = nLogins + 1
    /\ \E p \in Passwords : LoginGet(users[i].username, p)

\* a running login for user i resumed with a matching password in this step
LoginSucceededFor(i) ==
    \E l \in logins :
        /\ l.userId = i
        /\ l.pc = "compare"
        /\ LoginCompareStatus(l) = 200
        /\ LoginCompare(l)

\* C22: the fifth failed password attempt in a row locks the account for 15
\* minutes; every login request received for it before the lock expires, the
\* one with the correct password included, is answered 401 and changes
\* nothing; a successful login resets the failure counter to 0 and clears the
\* lock.
C22_Lockout ==
    /\ [](\A i \in 1..Len(users) :
            /\ users[i].failedLoginAttempts >= LockThreshold => IsSome(users[i].lockedUntil)
            /\ Locked(users[i]) => LoginGetStatus(users[i].username) = Some(401))
    /\ [][\A i \in 1..Len(users) :
            /\ users'[i].failedLoginAttempts > users[i].failedLoginAttempts
                  => /\ users'[i].failedLoginAttempts = users[i].failedLoginAttempts + 1
                     /\ users'[i].failedLoginAttempts >= LockThreshold
                           => users'[i].lockedUntil = Some(now + LockWindow)
            /\ (Locked(users[i]) /\ LoginReceivedFor(i))
                  => users' = users /\ logins' = logins
            /\ LoginSucceededFor(i)
                  => /\ users'[i].failedLoginAttempts = 0
                     /\ users'[i].lockedUntil = None]_vars

\* an account has 5 failures and is locked, and a sixth login request for it
\* has been turned away by the lock
C22_Witness ==
    \E i \in 1..Len(users) :
        /\ users[i].hashed
        /\ users[i].failedLoginAttempts = LockThreshold
        /\ Locked(users[i])
        /\ nLogins > LockThreshold
        /\ logins = {}

\* a check of a signature generated over the same payload with the same secret
Genuine(c) == c.signature = generateSignature(c.payload, c.secret)

\* C21: verifyWebhookSignature returns true for the signature generated over
\* the identical payload with the same secret, and returns false when the
\* payload differs in any byte or another secret generated the signature.
C21_VerifyAcceptsExactlyGenuine ==
    \A c \in signatureChecks :
        c.result.value = Some(Genuine(c))

\* C26: while the cached token is absent or expired, at most one OAuth
\* request of getAccessToken is in flight at any time; and a call that is
\* answered from the cache returns a token that has not expired.
C26_SingleRefresh ==
    /\ [](Cardinality(tokenFetches) <= 1)
    /\ [][(nTokenCalls' = nTokenCalls + 1 /\ tokenFetches' = tokenFetches)
            => IsSome(accessToken) /\ now < tokenExpiry[1]]_vars

====
